---- MODULE Spec2Model ----
(***************************************************************************)
(* rockit: the two rocBLAS BF16 GEMM benchmark scripts,                    *)
(*   src/src/rocblas-quick.py      (explicit list of five shapes)          *)
(*   src/src/rocblas-benchmark.py  (Cartesian product dims x dims x dims)  *)
(* Both are straight-line module-level scripts.  Every call into the HIP   *)
(* runtime or rocBLAS is one step; its status code is chosen by the        *)
(* environment.  hip_check / rocblas_check raise RuntimeError on a         *)
(* non-zero status; nothing in either script catches it, so a raise ends   *)
(* the process (pc = "raised", exit code 1).                               *)
(*                                                                         *)
(* Times are integer milliseconds.  tops and time_ms are kept as exact     *)
(* rationals [num, den]; tops is expressed in units of 1024^3 / 1e9 TOPS   *)
(* so that 2*m*n*k stays inside TLC's 32-bit integers.  Floating-point     *)
(* rounding is not modelled.                                               *)
(***************************************************************************)
EXTENDS Integers, Sequences, FiniteSets, TLC

(* ---- bounds of the model ---- *)
\* how many entries of the benchmark script's dims list the sweep uses
NDims == 2
\* besides bench_iters ms (1 ms per call) the timed region's wall time can be
\* any of 1..MaxElapsed milliseconds
MaxElapsed == 2

(* ---- program constants ---- *)
HIP_SUCCESS == 0
ROCBLAS_STATUS_SUCCESS == 0
ROCBLAS_OPERATION_NONE == 111
ROCBLAS_DATATYPE_BF16_R == 168
ROCBLAS_DATATYPE_F32_R == 151
ROCBLAS_GEMM_DEFAULT == 0
element_size == 2
warmup_iters == 3
bench_iters == 10

Scripts == {"quick", "benchmark"}
\* status codes a call can return: success and one failure code
Statuses == {0, 1}
\* values the runtime can leave in device_count
DeviceCounts == {0, 1}
Buffers == {"A", "B", "C"}

test_cases ==
    << <<1024, 1024, 1024>>,
       <<2048, 2048, 2048>>,
       <<4096, 4096, 4096>>,
       <<8192, 8192, 8192>>,
       <<2048, 4096, 2048>> >>

AllDims == <<1024, 2048, 4096, 8192>>

dims ==
    SubSeq(AllDims, 1, IF NDims < Len(AllDims) THEN NDims ELSE Len(AllDims))

VARIABLES
    script,          \* which of the two scripts runs
    pc,              \* position in the script
    status,          \* status code returned by the last runtime/library call
    device_count,    \* device_count.value
    handle,          \* "none", "live", "destroyed"
    i,               \* quick: enumerate index; benchmark: current_test
    mi, ni, ki,      \* benchmark: positions of the three nested loops in dims
    m, n, k,         \* current shape
    iter,            \* iterations done in the current warmup / timed loop
    mallocs,         \* per buffer: successful hipMalloc calls in this iteration
    frees,           \* per buffer: hipFree calls in this iteration
    resident,        \* buffers allocated and not yet passed to hipFree
    req_bytes,       \* per buffer: byte count passed to hipMalloc in this iteration
    copy_bytes,      \* per buffer: byte count passed to hipMemcpy in this iteration
    last_gemm,       \* <<>> or <<arguments of the last rocblas_gemm_ex call>>
    trace,           \* the calls of the current shape iteration, in order
    results,         \* the list `results`
    results_sorted,  \* benchmark: the list `results_sorted`
    jittered,        \* a shape of this run has not measured 1 ms per call
    destroys,        \* number of rocblas_destroy_handle calls so far
    issued,          \* names of the runtime/library functions called so far
    setup_failed,    \* a one-time setup call has returned a non-zero status
    failed_call,     \* the call whose check raised, "none" if none
    exit_code        \* process exit code, -1 while running

vars == << script, pc, status, device_count, handle, i, mi, ni, ki, m, n, k,
           iter, mallocs, frees, resident, req_bytes, copy_bytes, last_gemm,
           trace, results, results_sorted, jittered, destroys, issued,
           setup_failed, failed_call, exit_code >>

(* ---- helpers ---- *)

\* hip_check(status): TRUE when it returns, FALSE when it raises RuntimeError
hip_check(s) == s = HIP_SUCCESS

\* rocblas_check(status): TRUE when it returns, FALSE when it raises
rocblas_check(s) == s = ROCBLAS_STATUS_SUCCESS

\* faulty variant of C_size: an element count, not a byte count
C_size_Elements == m * n

A_size == m * k * element_size
B_size == k * n * element_size
C_size == m * n * element_size

SizeOf(b) == IF b = "A" THEN A_size ELSE IF b = "B" THEN B_size ELSE C_size

\* faulty variant of ldb: the column count of B instead of its row count
ldb_Columns == n

lda == m
ldb == k
ldc == m

\* faulty variant of GemmArgs: the timed loop accumulates into C (beta = 1)
GemmArgs_Accumulate ==
    [ handle |-> handle,
      transA |-> ROCBLAS_OPERATION_NONE,
      transB |-> ROCBLAS_OPERATION_NONE,
      m |-> m, n |-> n, k |-> k,
      alpha |-> 1,
      A |-> "d_A", a_type |-> ROCBLAS_DATATYPE_BF16_R, lda |-> lda,
      B |-> "d_B", b_type |-> ROCBLAS_DATATYPE_BF16_R, ldb |-> ldb,
      beta |-> IF pc = "bench" THEN 1 ELSE 0,
      C |-> "d_C", c_type |-> ROCBLAS_DATATYPE_BF16_R, ldc |-> ldc,
      D |-> "d_C", d_type |-> ROCBLAS_DATATYPE_BF16_R, ldd |-> ldc,
      compute_type |-> ROCBLAS_DATATYPE_F32_R,
      algo |-> ROCBLAS_GEMM_DEFAULT,
      solution_index |-> 0,
      flags |-> 0 ]

\* the argument list of rocblas_gemm_ex, identical text in the warmup and the
\* timed loop of both scripts
GemmArgs ==
    [ handle |-> handle,
      transA |-> ROCBLAS_OPERATION_NONE,
      transB |-> ROCBLAS_OPERATION_NONE,
      m |-> m, n |-> n, k |-> k,
      alpha |-> 1,
      A |-> "d_A", a_type |-> ROCBLAS_DATATYPE_BF16_R, lda |-> lda,
      B |-> "d_B", b_type |-> ROCBLAS_DATATYPE_BF16_R, ldb |-> ldb,
      beta |-> 0,
      C |-> "d_C", c_type |-> ROCBLAS_DATATYPE_BF16_R, ldc |-> ldc,
      D |-> "d_C", d_type |-> ROCBLAS_DATATYPE_BF16_R, ldd |-> ldc,
      compute_type |-> ROCBLAS_DATATYPE_F32_R,
      algo |-> ROCBLAS_GEMM_DEFAULT,
      solution_index |-> 0,
      flags |-> 0 ]

\* time.time() - start, in milliseconds
ElapsedChoices == (1..MaxElapsed) \cup {bench_iters}

\* exact rationals
Rat(a, b) == [num |-> a, den |-> b]
RatLess(x, y) == x.num * y.den < y.num * x.den
RatEq(x, y) == x.num * y.den = y.num * x.den

\* avg_time * 1000 with elapsed in milliseconds: elapsed / bench_iters
TimeMs(elapsed) == Rat(elapsed, bench_iters)

\* faulty variant of Tops: divides by the whole elapsed time, not by avg_time
Tops_TotalTime(sm, sn, sk, elapsed) ==
    Rat(2 * (sm \div 1024) * (sn \div 1024) * (sk \div 1024), elapsed)

\* (2*m*n*k) / (avg_time * 1e12), in units of 1024^3 / 1e9 TOPS
Tops(sm, sn, sk, elapsed) ==
    Rat(2 * (sm \div 1024) * (sn \div 1024) * (sk \div 1024) * bench_iters, elapsed)

Result(sm, sn, sk, elapsed) ==
    [ m |-> sm, n |-> sn, k |-> sk,
      time_ms |-> TimeMs(elapsed),
      tops |-> Tops(sm, sn, sk, elapsed) ]

\* faulty variant of InsertDesc: x goes in front of the elements with an equal key
InsertDesc_TiesFirst(t, x) ==
    LET notLarger == { j \in 1..Len(t) : ~RatLess(x.tops, t[j].tops) }
        pos == IF notLarger = {} THEN Len(t) + 1
               ELSE CHOOSE j \in notLarger : \A j2 \in notLarger : j <= j2
    IN  SubSeq(t, 1, pos - 1) \o <<x>> \o SubSeq(t, pos, Len(t))

\* sorted(results, key=lambda x: x['tops'], reverse=True): Python's sort is
\* stable, also under reverse=True.  Insertion keeps x behind every element
\* whose key is not smaller.
InsertDesc(t, x) ==
    LET smaller == { j \in 1..Len(t) : RatLess(t[j].tops, x.tops) }
        pos == IF smaller = {} THEN Len(t) + 1
               ELSE CHOOSE j \in smaller : \A j2 \in smaller : j <= j2
    IN  SubSeq(t, 1, pos - 1) \o <<x>> \o SubSeq(t, pos, Len(t))

RECURSIVE sorted(_)
sorted(s) ==
    IF s = <<>> THEN <<>>
    ELSE InsertDesc(sorted(SubSeq(s, 1, Len(s) - 1)), s[Len(s)])

NoBuffers == [b \in Buffers |-> 0]

Terminated == pc \in {"done", "raised", "exit"}

(* ---- initial state: the interpreter is about to run line 95 / 51 ---- *)
Init ==
    /\ script \in Scripts
    /\ pc = "get_device_count"
    /\ status = 0
    /\ device_count = 0
    /\ handle = "none"
    /\ i = 0
    /\ mi = 0 /\ ni = 0 /\ ki = 0
    /\ m = 0 /\ n = 0 /\ k = 0
    /\ iter = 0
    /\ mallocs = NoBuffers
    /\ frees = NoBuffers
    /\ resident = {}
    /\ req_bytes = NoBuffers
    /\ copy_bytes = NoBuffers
    /\ last_gemm = <<>>
    /\ trace = <<>>
    /\ results = <<>>
    /\ results_sorted = <<>>
    /\ jittered = FALSE
    /\ destroys = 0
    /\ issued = {}
    /\ setup_failed = FALSE
    /\ failed_call = "none"
    /\ exit_code = -1

\* an uncaught RuntimeError: traceback, exit code 1, nothing else runs
Raise(call) ==
    /\ pc' = "raised"
    /\ failed_call' = call
    /\ exit_code' = 1

loopVars == << i, mi, ni, ki, m, n, k, iter >>
bufVars == << mallocs, frees, resident, req_bytes, copy_bytes >>
outVars == << results, results_sorted, jittered >>
\* everything the sweep leaves alone
setupVars == << script, device_count, setup_failed, destroys >>

(* ---- one-time setup ---- *)

\* quick: hip_check(hip.hipGetDeviceCount(...)); benchmark: status dropped
GetDeviceCount ==
    /\ pc = "get_device_count"
    /\ \E s \in Statuses, c \in DeviceCounts :
        /\ status' = s
        /\ device_count' = c
        /\ issued' = issued \cup {"hipGetDeviceCount"}
        /\ setup_failed' = (setup_failed \/ s # HIP_SUCCESS)
        /\ IF script = "quick" /\ ~hip_check(s)
           THEN Raise("hipGetDeviceCount")
           ELSE /\ pc' = "check_device_count"
                /\ UNCHANGED << failed_call, exit_code >>
    /\ UNCHANGED << script, handle, loopVars, bufVars, last_gemm, trace, outVars,
                    destroys >>

\* faulty variant of DeviceCountCheck: the zero test is missing
DeviceCountCheck_NoExit ==
    /\ pc = "check_device_count"
    /\ pc' = "get_device_props"
    /\ UNCHANGED << script, status, device_count, handle, loopVars, bufVars,
                    last_gemm, trace, outVars, issued, setup_failed, failed_call,
                    exit_code, destroys >>

\* if device_count.value == 0: sys.exit(1)
DeviceCountCheck ==
    /\ pc = "check_device_count"
    /\ IF device_count = 0
       THEN /\ pc' = "exit"
            /\ exit_code' = 1
       ELSE /\ pc' = "get_device_props"
            /\ UNCHANGED exit_code
    /\ UNCHANGED << script, status, device_count, handle, loopVars, bufVars,
                    last_gemm, trace, outVars, issued, setup_failed, failed_call,
                    destroys >>

\* quick: hip_check(hip.hipGetDeviceProperties(...)); benchmark: status dropped
GetDeviceProperties ==
    /\ pc = "get_device_props"
    /\ \E s \in Statuses :
        /\ status' = s
        /\ issued' = issued \cup {"hipGetDeviceProperties"}
        /\ setup_failed' = (setup_failed \/ s # HIP_SUCCESS)
        /\ IF script = "quick" /\ ~hip_check(s)
           THEN Raise("hipGetDeviceProperties")
           ELSE /\ pc' = "create_handle"
                /\ UNCHANGED << failed_call, exit_code >>
    /\ UNCHANGED << script, device_count, handle, loopVars, bufVars, last_gemm,
                    trace, outVars, destroys >>

\* rocblas_check(rocblas.rocblas_create_handle(...), ...)
CreateHandle ==
    /\ pc = "create_handle"
    /\ \E s \in Statuses :
        /\ status' = s
        /\ issued' = issued \cup {"rocblas_create_handle"}
        /\ setup_failed' = (setup_failed \/ s # ROCBLAS_STATUS_SUCCESS)
        /\ IF rocblas_check(s)
           THEN /\ handle' = "live"
                /\ pc' = "loop"
                /\ UNCHANGED << failed_call, exit_code >>
           ELSE /\ Raise("rocblas_create_handle")
                /\ UNCHANGED handle
    /\ UNCHANGED << script, device_count, loopVars, bufVars, last_gemm, trace,
                    outVars, destroys >>

(* ---- the sweep ---- *)

\* quick: for i, (m, n, k) in enumerate(test_cases, 1)
QuickNext ==
    IF i < Len(test_cases)
    THEN /\ i' = i + 1
         /\ m' = test_cases[i + 1][1]
         /\ n' = test_cases[i + 1][2]
         /\ k' = test_cases[i + 1][3]
         /\ pc' = "malloc_A"
    ELSE /\ pc' = "destroy_handle"
         /\ UNCHANGED << i, m, n, k >>

\* faulty variant of NextPos: the loops are nested the other way round, m
\* innermost and k outermost
NextPos_MInnermost ==
    IF mi = 0 THEN <<1, 1, 1>>
    ELSE IF mi < Len(dims) THEN <<mi + 1, ni, ki>>
    ELSE IF ni < Len(dims) THEN <<1, ni + 1, ki>>
    ELSE IF ki < Len(dims) THEN <<1, 1, ki + 1>>
    ELSE <<0, 0, 0>>

\* benchmark: for m in dims: for n in dims: for k in dims: current_test += 1
\* (mi, ni, ki) = (0, 0, 0) before the first iteration
NextPos ==
    IF mi = 0 THEN <<1, 1, 1>>
    ELSE IF ki < Len(dims) THEN <<mi, ni, ki + 1>>
    ELSE IF ni < Len(dims) THEN <<mi, ni + 1, 1>>
    ELSE IF mi < Len(dims) THEN <<mi + 1, 1, 1>>
    ELSE <<0, 0, 0>>

BenchmarkNext ==
    IF NextPos # <<0, 0, 0>>
    THEN /\ mi' = NextPos[1]
         /\ ni' = NextPos[2]
         /\ ki' = NextPos[3]
         /\ m' = dims[NextPos[1]]
         /\ n' = dims[NextPos[2]]
         /\ k' = dims[NextPos[3]]
         /\ i' = i + 1
         /\ pc' = "malloc_A"
    ELSE /\ pc' = "destroy_handle"
         /\ UNCHANGED << i, mi, ni, ki, m, n, k >>

\* the loop header, up to d_A = d_B = d_C = ctypes.c_void_p()
LoopHead ==
    /\ pc = "loop"
    /\ IF script = "quick"
       THEN QuickNext /\ UNCHANGED << mi, ni, ki >>
       ELSE BenchmarkNext
    /\ IF pc' = "malloc_A"
       THEN /\ mallocs' = NoBuffers
            /\ frees' = NoBuffers
            /\ req_bytes' = NoBuffers
            /\ copy_bytes' = NoBuffers
            /\ trace' = <<>>
       ELSE UNCHANGED << mallocs, frees, req_bytes, copy_bytes, trace >>
    /\ UNCHANGED << setupVars, status, handle, iter, resident, last_gemm,
                    outVars, issued, failed_call, exit_code >>

\* hip_check(hip.hipMalloc(ctypes.byref(d_X), X_size), "Failed to allocate d_X")
Malloc(b, next) ==
    /\ pc = "malloc_" \o b
    /\ \E s \in Statuses :
        /\ status' = s
        /\ issued' = issued \cup {"hipMalloc"}
        /\ trace' = Append(trace, "malloc_" \o b)
        /\ req_bytes' = [req_bytes EXCEPT ![b] = SizeOf(b)]
        /\ IF hip_check(s)
           THEN /\ mallocs' = [mallocs EXCEPT ![b] = @ + 1]
                /\ resident' = resident \cup {<<i, b>>}
                /\ pc' = next
                /\ UNCHANGED << failed_call, exit_code >>
           ELSE /\ Raise("hipMalloc")
                /\ UNCHANGED << mallocs, resident >>
    /\ UNCHANGED << setupVars, handle, loopVars, frees, copy_bytes, last_gemm,
                    outVars >>

\* faulty variant of MallocC: the status of the third allocation is dropped
MallocC_Unchecked ==
    /\ pc = "malloc_C"
    /\ \E s \in Statuses :
        /\ status' = s
        /\ issued' = issued \cup {"hipMalloc"}
        /\ trace' = Append(trace, "malloc_C")
        /\ req_bytes' = [req_bytes EXCEPT !["C"] = SizeOf("C")]
        /\ IF hip_check(s)
           THEN /\ mallocs' = [mallocs EXCEPT !["C"] = @ + 1]
                /\ resident' = resident \cup {<<i, "C">>}
           ELSE UNCHANGED << mallocs, resident >>
        /\ pc' = "memcpy_A"
    /\ UNCHANGED << setupVars, handle, loopVars, frees, copy_bytes, last_gemm,
                    outVars, failed_call, exit_code >>

MallocA == Malloc("A", "malloc_B")
MallocB == Malloc("B", "malloc_C")
MallocC == Malloc("C", "memcpy_A")

\* hip_check(hip.hipMemcpy(d_X, h_X.ctypes.data, X_size, 1), ...)
Memcpy(b, next) ==
    /\ pc = "memcpy_" \o b
    /\ \E s \in Statuses :
        /\ status' = s
        /\ issued' = issued \cup {"hipMemcpy"}
        /\ trace' = Append(trace, "memcpy_" \o b)
        /\ copy_bytes' = [copy_bytes EXCEPT ![b] = SizeOf(b)]
        /\ IF hip_check(s)
           THEN /\ pc' = next
                /\ UNCHANGED << failed_call, exit_code >>
           ELSE Raise("hipMemcpy")
    /\ UNCHANGED << setupVars, handle, loopVars, mallocs, frees, resident,
                    req_bytes, last_gemm, outVars >>

\* faulty variant of MemcpyB: the upload of B is missing
MemcpyB_Skipped ==
    /\ pc = "memcpy_B"
    /\ pc' = "warmup"
    /\ UNCHANGED << setupVars, status, handle, loopVars, bufVars, last_gemm,
                    trace, outVars, issued, failed_call, exit_code >>

MemcpyA == Memcpy("A", "memcpy_B")
MemcpyB == Memcpy("B", "warmup")

\* faulty variant of GemmLoop: a failed call is issued again
GemmLoop_Retry(here, event, count, next) ==
    /\ pc = here
    /\ \E s \in Statuses :
        /\ status' = s
        /\ issued' = issued \cup {"rocblas_gemm_ex"}
        /\ last_gemm' = <<GemmArgs>>
        /\ trace' = Append(trace, event)
        /\ IF rocblas_check(s)
           THEN IF iter + 1 < count
                THEN pc' = here /\ iter' = iter + 1
                ELSE pc' = next /\ iter' = 0
           ELSE pc' = here /\ iter' = iter
        /\ UNCHANGED << failed_call, exit_code >>
    /\ UNCHANGED << setupVars, handle, i, mi, ni, ki, m, n, k, bufVars,
                    outVars >>

\* one pass through the body of a GEMM loop of `count` iterations: the call,
\* rocblas_check, and the loop test that follows
GemmLoop(here, event, count, next) ==
    /\ pc = here
    /\ \E s \in Statuses :
        /\ status' = s
        /\ issued' = issued \cup {"rocblas_gemm_ex"}
        /\ last_gemm' = <<GemmArgs>>
        /\ trace' = Append(trace, event)
        /\ IF rocblas_check(s)
           THEN /\ IF iter + 1 < count
                   THEN pc' = here /\ iter' = iter + 1
                   ELSE pc' = next /\ iter' = 0
                /\ UNCHANGED << failed_call, exit_code >>
           ELSE /\ Raise("rocblas_gemm_ex")
                /\ UNCHANGED iter
    /\ UNCHANGED << setupVars, handle, i, mi, ni, ki, m, n, k, bufVars,
                    outVars >>

\* faulty variant of Warmup: the loop runs one iteration short
Warmup_OneShort ==
    GemmLoop("warmup", "warmup", warmup_iters - 1, "sync_warmup")

\* for _ in range(warmup_iters): rocblas_gemm_ex(...); rocblas_check(...)
Warmup == GemmLoop("warmup", "warmup", warmup_iters, "sync_warmup")

\* for _ in range(bench_iters): rocblas_gemm_ex(...); rocblas_check(...)
Bench == GemmLoop("bench", "timed", bench_iters, "sync_bench")

\* hip_check(hip.hipDeviceSynchronize(), "Failed to synchronize")
Synchronize(here, next) ==
    /\ pc = here
    /\ \E s \in Statuses :
        /\ status' = s
        /\ issued' = issued \cup {"hipDeviceSynchronize"}
        /\ trace' = Append(trace, "sync")
        /\ IF hip_check(s)
           THEN /\ pc' = next
                /\ UNCHANGED << failed_call, exit_code >>
           ELSE Raise("hipDeviceSynchronize")
    /\ UNCHANGED << setupVars, handle, loopVars, bufVars, last_gemm, outVars >>

\* faulty variant of SyncWarmup: the barrier after the warmup loop is missing
SyncWarmup_Omitted ==
    /\ pc = "sync_warmup"
    /\ pc' = "start_timer"
    /\ UNCHANGED << setupVars, status, handle, loopVars, bufVars, last_gemm,
                    trace, outVars, issued, failed_call, exit_code >>

\* faulty variant of SyncBench: the end time is read before the barrier
SyncBench_AfterTimer ==
    /\ pc = "sync_bench"
    /\ \E s \in Statuses :
        /\ status' = s
        /\ issued' = issued \cup {"hipDeviceSynchronize"}
        /\ trace' = trace \o <<"time_end", "sync">>
        /\ IF hip_check(s)
           THEN /\ pc' = "measure"
                /\ UNCHANGED << failed_call, exit_code >>
           ELSE Raise("hipDeviceSynchronize")
    /\ UNCHANGED << setupVars, handle, loopVars, bufVars, last_gemm, outVars >>

SyncWarmup == Synchronize("sync_warmup", "start_timer")
SyncBench == Synchronize("sync_bench", "measure")

\* bench_iters = 10; start = time.time()
StartTimer ==
    /\ pc = "start_timer"
    /\ trace' = Append(trace, "time_start")
    /\ pc' = "bench"
    /\ UNCHANGED << setupVars, status, handle, loopVars, bufVars, last_gemm,
                    outVars, issued, failed_call, exit_code >>

\* elapsed = time.time() - start; avg_time; tops; results.append({...})
\* The clock difference is one of ElapsedChoices, but only one shape of a run
\* may measure something else than 1 ms per call: this keeps the set of
\* result lists small.
Measure ==
    /\ pc = "measure"
    /\ \E elapsed \in ElapsedChoices :
        /\ elapsed = bench_iters \/ ~jittered
        /\ jittered' = (jittered \/ elapsed # bench_iters)
        /\ results' = Append(results, Result(m, n, k, elapsed))
    /\ trace' = trace \o <<"time_end", "append">>
    /\ pc' = "free_A"
    /\ UNCHANGED << setupVars, status, handle, loopVars, bufVars, last_gemm,
                    results_sorted, issued, failed_call, exit_code >>

\* faulty variant of Free: the status goes through hip_check
Free_Checked(b, next) ==
    /\ pc = "free_" \o b
    /\ \E s \in Statuses :
        /\ status' = s
        /\ IF hip_check(s)
           THEN /\ pc' = next
                /\ UNCHANGED << failed_call, exit_code >>
           ELSE Raise("hipFree")
    /\ issued' = issued \cup {"hipFree"}
    /\ trace' = Append(trace, "free_" \o b)
    /\ frees' = [frees EXCEPT ![b] = @ + 1]
    /\ resident' = resident \ {<<i, b>>}
    /\ UNCHANGED << setupVars, handle, loopVars, mallocs, req_bytes, copy_bytes,
                    last_gemm, outVars >>

\* hip.hipFree(d_X): the status is dropped
Free(b, next) ==
    /\ pc = "free_" \o b
    /\ \E s \in Statuses : status' = s
    /\ issued' = issued \cup {"hipFree"}
    /\ trace' = Append(trace, "free_" \o b)
    /\ frees' = [frees EXCEPT ![b] = @ + 1]
    /\ resident' = resident \ {<<i, b>>}
    /\ pc' = next
    /\ UNCHANGED << setupVars, handle, loopVars, mallocs, req_bytes, copy_bytes,
                    last_gemm, outVars, failed_call, exit_code >>

\* faulty variant of FreeB: d_B is not freed
FreeB_Skipped ==
    /\ pc = "free_B"
    /\ pc' = "free_C"
    /\ UNCHANGED << setupVars, status, handle, loopVars, bufVars, last_gemm,
                    trace, outVars, issued, failed_call, exit_code >>

\* faulty variant of FreeC: the handle is destroyed inside the loop body
FreeC_ThenDestroy == Free("C", "destroy_handle")

FreeA == Free("A", "free_B")
FreeB == Free("B", "free_C")
FreeC == Free("C", "loop")

(* ---- after the sweep ---- *)

\* rocblas.rocblas_destroy_handle(handle): the status is dropped
DestroyHandle ==
    /\ pc = "destroy_handle"
    /\ \E s \in Statuses : status' = s
    /\ issued' = issued \cup {"rocblas_destroy_handle"}
    /\ handle' = "destroyed"
    /\ destroys' = destroys + 1
    /\ pc' = "summary"
    /\ UNCHANGED << script, device_count, setup_failed, loopVars, bufVars,
                    last_gemm, trace, outVars, failed_call, exit_code >>

\* the summary prints; benchmark builds results_sorted; the script ends
Summary ==
    /\ pc = "summary"
    /\ results_sorted' = IF script = "benchmark" THEN sorted(results)
                         ELSE results_sorted
    /\ pc' = "done"
    /\ exit_code' = 0
    /\ UNCHANGED << setupVars, status, handle, loopVars, bufVars, last_gemm,
                    trace, results, jittered, issued, failed_call >>

Next ==
    \/ GetDeviceCount
    \/ DeviceCountCheck
    \/ GetDeviceProperties
    \/ CreateHandle
    \/ LoopHead
    \/ MallocA
    \/ MallocB
    \/ MallocC
    \/ MemcpyA
    \/ MemcpyB
    \/ Warmup
    \/ SyncWarmup
    \/ StartTimer
    \/ Bench
    \/ SyncBench
    \/ Measure
    \/ FreeA
    \/ FreeB
    \/ FreeC
    \/ DestroyHandle
    \/ Summary

Spec == Init /\ [][Next]_vars

(* ======================================================================= *)
(* Properties                                                              *)
(* ======================================================================= *)

\* the calls made inside a shape iteration whose non-zero status raises
ShapeCalls == {"hipMalloc", "hipMemcpy", "rocblas_gemm_ex", "hipDeviceSynchronize"}

\* length of the sweep of the running script
NumShapes ==
    IF script = "quick" THEN Len(test_cases)
    ELSE Len(dims) * Len(dims) * Len(dims)

\* the j-th shape of the input sequence: the list entry, or the j-th triple of
\* dims x dims x dims with m outermost and k innermost
InputShape(j) ==
    IF script = "quick" THEN test_cases[j]
    ELSE LET D == Len(dims)
         IN  << dims[((j - 1) \div (D * D)) + 1],
                dims[(((j - 1) \div D) % D) + 1],
                dims[((j - 1) % D) + 1] >>

\* the current shape iteration has run to its last statement
ShapeCompleted == trace # <<>> /\ trace[Len(trace)] = "free_C"

\* the current shape iteration was ended by a raise
ShapeFailed == pc = "raised" /\ failed_call \in ShapeCalls

Positions(event) == { j \in 1..Len(trace) : trace[j] = event }

\* C1: at the end of every shape iteration, completed or failed, each buffer
\* has been passed to hipFree exactly as often as its hipMalloc succeeded
\* (0 or 1 times).  The scripts leave a failed iteration without any hipFree.
C1_FreesMatchAllocs ==
    (ShapeCompleted \/ ShapeFailed) =>
        \A b \in Buffers : frees[b] = mallocs[b] /\ frees[b] <= 1

\* C2: a failed hipMalloc does not end the run while shapes remain: the sweep
\* goes on to the next shape.  The scripts end with the RuntimeError.
C2_AllocFailureContinues ==
    (failed_call = "hipMalloc" /\ i < NumShapes) => ~Terminated

\* C3: a run that created the handle ends only with the handle destroyed.
\* After a raise inside the sweep the scripts never reach rocblas_destroy_handle.
C3_HandleDestroyedOnEveryExit ==
    (Terminated /\ "rocblas_create_handle" \in issued /\ handle # "none")
        => handle = "destroyed"

\* C4: a failed upload, GEMM call or synchronize is caught at the shape
\* boundary: when the run is over the shape's buffers have been freed and the
\* sweep has reached its last shape.  The scripts stop at the failing call.
C4_ShapeFailureCaught ==
    (Terminated /\ failed_call \in {"hipMemcpy", "rocblas_gemm_ex", "hipDeviceSynchronize"})
        => (resident = {} /\ i = NumShapes)

\* C5: a completed shape iteration has exactly two synchronize calls, one
\* after every warmup call and before every timed call, one after every timed
\* call; and in no iteration does a synchronize fall between two timed calls.
C5_TwoBarriersPerShape ==
    /\ ShapeCompleted =>
         /\ Cardinality(Positions("sync")) = 2
         /\ Positions("warmup") # {} /\ Positions("timed") # {}
         /\ \E s1, s2 \in Positions("sync") :
               /\ s1 < s2
               /\ \A w \in Positions("warmup") : w < s1
               /\ \A t \in Positions("timed") : s1 < t /\ t < s2
    /\ \A t1, t2 \in Positions("timed"), s \in Positions("sync") :
         ~(t1 < s /\ s < t2)

C5_Witness == ShapeCompleted /\ i = 2 /\ Cardinality(Positions("timed")) = bench_iters

\* the calls of an error-free shape iteration, in order
PhaseOrder ==
    << "malloc_A", "malloc_B", "malloc_C", "memcpy_A", "memcpy_B" >>
    \o [j \in 1..warmup_iters |-> "warmup"]
    \o << "sync", "time_start" >>
    \o [j \in 1..bench_iters |-> "timed"]
    \o << "sync", "time_end", "append", "free_A", "free_B", "free_C" >>

\* C6: the calls of a shape iteration are always an initial part of
\* Allocate(A,B,C), Upload(A,B), W warmups, barrier, N timed calls, barrier,
\* Measure, Free(A,B,C), and the whole of it when the iteration completes; no
\* buffer is resident when an iteration is about to make its first allocation.
C6_PhaseOrder ==
    /\ Len(trace) <= Len(PhaseOrder)
    /\ trace = SubSeq(PhaseOrder, 1, Len(trace))
    /\ ShapeCompleted => trace = PhaseOrder
    /\ pc = "malloc_A" => (resident = {} /\ trace = <<>>)

C6_Witness == pc = "malloc_A" /\ i = 3 /\ Len(results) = 2

\* C7: once the device count has been read as zero, the run only exits with
\* code 1: no handle is created and no allocate, upload, GEMM, synchronize or
\* free call is made.
C7_ZeroDevicesAbort ==
    (device_count = 0 /\ pc # "get_device_count") =>
        /\ pc \in {"check_device_count", "exit", "raised"}
        /\ handle = "none"
        /\ issued \subseteq {"hipGetDeviceCount"}
        /\ Terminated => exit_code = 1

C7_Witness == pc = "exit" /\ device_count = 0 /\ status = 0 /\ exit_code = 1

\* C8: after a one-time setup call (device count, device properties, handle
\* creation) has returned a non-zero status, no allocation and no GEMM call is
\* made.  The benchmark script drops the status of the two device queries.
C8_SetupFailureIsFatal ==
    setup_failed => issued \cap {"hipMalloc", "rocblas_gemm_ex"} = {}

\* t is s sorted by tops descending, equal tops keeping their order in s
IsStableSortDesc(t, s) ==
    LET IndexIn(x) == CHOOSE j \in 1..Len(s) : s[j] = x
    IN  /\ Len(t) = Len(s)
        /\ { t[j] : j \in 1..Len(t) } = { s[j] : j \in 1..Len(s) }
        /\ \A a, b \in 1..Len(t) :
             a < b =>
               /\ ~RatLess(t[a].tops, t[b].tops)
               /\ RatEq(t[a].tops, t[b].tops) => IndexIn(t[a]) < IndexIn(t[b])

\* C9: every step leaves the result list alone or appends one entry to it;
\* its j-th entry is the j-th shape of the input sequence; and the step that
\* builds the top-performers view leaves the result list unchanged and makes
\* the view a stable sort of it by tops descending.
C9_SweepOrderAndStableView ==
    [][ /\ \/ results' = results
           \/ /\ Len(results') = Len(results) + 1
              /\ SubSeq(results', 1, Len(results)) = results
        /\ \A j \in 1..Len(results') :
             << results'[j].m, results'[j].n, results'[j].k >> = InputShape(j)
        /\ results_sorted' # results_sorted =>
             /\ results' = results
             /\ IsStableSortDesc(results_sorted', results)
      ]_vars

C9_Witness ==
    /\ pc = "done"
    /\ script = "benchmark"
    /\ Len(results_sorted) = NumShapes
    /\ results_sorted # results
    /\ \E a, b \in 1..Len(results_sorted) :
         a < b /\ RatEq(results_sorted[a].tops, results_sorted[b].tops)

\* C10: every GEMM call passes B's buffer in the first operand slot and A's
\* buffer in the second.  The scripts pass d_A first and d_B second.
C10_OperandsSwapped ==
    last_gemm # <<>> => (last_gemm[1].A = "d_B" /\ last_gemm[1].B = "d_A")

\* a GEMM call has been issued in the current shape iteration
GemmIssued == Positions("warmup") \cup Positions("timed") # {}

\* C11: every GEMM call carries the no-transpose flag for both operands, the
\* dimensions (m, n, k) of the current input shape, and lda = m, ldb = k,
\* ldc = m.
C11_GemmDimsAndLeadingDims ==
    GemmIssued =>
        LET g == last_gemm[1]
            sh == InputShape(i)
        IN  /\ g.transA = ROCBLAS_OPERATION_NONE
            /\ g.transB = ROCBLAS_OPERATION_NONE
            /\ << g.m, g.n, g.k >> = sh
            /\ g.lda = sh[1]
            /\ g.ldb = sh[3]
            /\ g.ldc = sh[1]

C11_Witness ==
    /\ Positions("timed") # {}
    /\ n # k
    /\ last_gemm[1].ldb = k
    /\ last_gemm[1].n = n

\* bytes of a rows x cols matrix of 2-byte elements
ExpectedBytes(sh, b) ==
    IF b = "A" THEN sh[1] * sh[3] * 2
    ELSE IF b = "B" THEN sh[3] * sh[2] * 2
    ELSE sh[1] * sh[2] * 2

\* C12: the byte count of every allocation request of shape (m, n, k) is
\* m*k*2 for A, k*n*2 for B and m*n*2 for C; for (8192, 8192, 8192) each
\* request is 134,217,728 bytes.
C12_AllocationSizes ==
    IF i = 0 THEN req_bytes = NoBuffers
    ELSE \A b \in Buffers :
           /\ req_bytes[b] \in {0, ExpectedBytes(InputShape(i), b)}
           /\ mallocs[b] > 0 => req_bytes[b] = ExpectedBytes(InputShape(i), b)
           /\ (mallocs[b] > 0 /\ InputShape(i) = <<8192, 8192, 8192>>)
                => req_bytes[b] = 134217728

C12_Witness ==
    /\ script = "quick"
    /\ << m, n, k >> = <<8192, 8192, 8192>>
    /\ \A b \in Buffers : mallocs[b] = 1 /\ req_bytes[b] = 134217728

\* C13: every recorded result of shape (m, n, k) has time_ms = elapsed / N for
\* a measured elapsed time (avgSeconds = elapsed / N, in milliseconds) and
\* tops * time_ms = 2*m*n*k / 1e9, i.e. tops = 2*m*n*k / (avgSeconds * 1e12);
\* for (1024, 1024, 1024) at 1 ms per call tops is 2 * 1024^3 / 1e9.
\* (tops is held in units of 1024^3 / 1e9.)
C13_AverageAndTops ==
    \A j \in 1..Len(results) :
        LET r == results[j]
            sh == InputShape(j)
            ops == 2 * (sh[1] \div 1024) * (sh[2] \div 1024) * (sh[3] \div 1024)
        IN  /\ << r.m, r.n, r.k >> = sh
            /\ \E e \in ElapsedChoices : RatEq(r.time_ms, Rat(e, bench_iters))
            /\ r.tops.num * r.time_ms.num = ops * r.tops.den * r.time_ms.den
            /\ (sh = <<1024, 1024, 1024>> /\ RatEq(r.time_ms, Rat(1, 1)))
                 => RatEq(r.tops, Rat(2, 1))

C13_Witness ==
    /\ Len(results) >= 2
    /\ bench_iters = 10
    /\ results[1].m = 1024 /\ results[1].n = 1024 /\ results[1].k = 1024
    /\ RatEq(results[1].time_ms, Rat(1, 1))
    /\ RatEq(results[1].tops, Rat(2, 1))
    /\ ~RatEq(results[2].time_ms, Rat(1, 1))

\* C14: rocblas_destroy_handle is called at most once, and only when the last
\* shape of the sweep has run through all its GEMM calls and its final
\* synchronize; once the handle is destroyed no GEMM call and no other
\* runtime or library call follows.
C14_DestroyOnceAfterSweep ==
    [][ /\ destroys' <= 1
        /\ destroys' # destroys =>
             /\ handle = "live"
             /\ i = NumShapes
             /\ trace = PhaseOrder
             /\ Len(results) = NumShapes
        /\ handle = "destroyed" =>
             /\ handle' = "destroyed"
             /\ last_gemm' = last_gemm
             /\ trace' = trace
             /\ issued' = issued
      ]_vars

C14_Witness ==
    pc = "done" /\ handle = "destroyed" /\ destroys = 1 /\ Len(results) = NumShapes

\* warmup and timed counts a user could ask for: the defaults and another pair
Configs ==
    { << warmup_iters, bench_iters >>, << warmup_iters + 1, bench_iters + 1 >> }

\* C15 as stated: W and N are inputs, so whichever counts are asked for, a
\* completed shape iteration issues that many warmup and timed calls.  The
\* scripts read no input; the counts are always 3 and 10.
C15_CountsAreConfigurable ==
    \A cfg \in Configs :
        ShapeCompleted =>
            /\ Cardinality(Positions("warmup")) = cfg[1]
            /\ Cardinality(Positions("timed")) = cfg[2]

\* C15 amended: W = 3 and N = 10 are fixed in the scripts; every completed
\* shape iteration issues exactly 3 warmup calls, all before the first
\* barrier, and exactly 10 timed calls, all between the two barriers: 13 GEMM
\* calls in total.
C15_FixedCounts ==
    ShapeCompleted =>
        LET warm == Positions("warmup")
            timed == Positions("timed")
            syncs == Positions("sync")
        IN  /\ Cardinality(warm) = 3
            /\ Cardinality(timed) = 10
            /\ Cardinality(warm \cup timed) = 13
            /\ \A w \in warm : \A s \in syncs : w < s
            /\ \A t \in timed :
                 Cardinality({ s \in syncs : s < t }) = 1

C15_Witness ==
    /\ ShapeCompleted
    /\ script = "quick"
    /\ Cardinality(Positions("warmup")) = 3
    /\ Cardinality(Positions("timed")) = 10

\* C16: at most three buffers are resident, each allocated by the current
\* shape iteration and not yet passed to hipFree; none is resident when an
\* iteration is about to make its first allocation.
C16_ResidentBuffers ==
    /\ Cardinality(resident) <= 3
    /\ \A x \in resident :
         x[1] = i /\ mallocs[x[2]] = 1 /\ frees[x[2]] = 0
    /\ pc = "malloc_A" => resident = {}

C16_Witness ==
    Cardinality(resident) = 3 /\ i = 2 /\ pc = "bench"

\* the one element of a one-element set of positions
The(S) == CHOOSE x \in S : TRUE

\* C17: the start time is read right after the post-warmup synchronize and
\* before every timed call; the end time is read right after the post-timed
\* synchronize; between the two readings lie exactly the N timed calls
\* followed by one synchronize, and nothing else.
C17_TimedInterval ==
    LET starts == Positions("time_start")
        ends == Positions("time_end")
    IN  /\ Cardinality(starts) <= 1
        /\ Cardinality(ends) <= 1
        /\ starts = {} => (ends = {} /\ Positions("timed") = {})
        /\ starts # {} =>
             /\ The(starts) > 1
             /\ trace[The(starts) - 1] = "sync"
             /\ \A w \in Positions("warmup") : w < The(starts) - 1
             /\ \A t \in Positions("timed") : The(starts) < t
        /\ ends # {} =>
             /\ starts # {}
             /\ SubSeq(trace, The(starts) + 1, The(ends) - 1)
                  = [j \in 1..bench_iters |-> "timed"] \o <<"sync">>

C17_Witness ==
    /\ Positions("time_end") # {}
    /\ i = 2
    /\ The(Positions("time_end")) - The(Positions("time_start")) = bench_iters + 2

\* how many entries of the call sequence tr are events of E
EventCount(tr, E) == Cardinality({ j \in 1..Len(tr) : tr[j] \in E })

\* the events of the calls whose status is checked
CheckedEvents ==
    { "malloc_A", "malloc_B", "malloc_C", "memcpy_A", "memcpy_B",
      "warmup", "timed", "sync" }

\* C18: a checked call that returns a non-zero status ends the run at once,
\* nothing is issued after it; within a shape each allocate, upload and free
\* is issued at most once, synchronize at most twice, and at most W + N GEMM
\* calls.
C18_NoRetry ==
    [][ /\ pc # "raised"
        /\ ( /\ Len(trace') = Len(trace) + 1
             /\ trace'[Len(trace')] \in CheckedEvents
             /\ status' # 0 )
           => (pc' = "raised" /\ failed_call' # "none")
        /\ \A e \in { "malloc_A", "malloc_B", "malloc_C", "memcpy_A",
                      "memcpy_B", "free_A", "free_B", "free_C" } :
             EventCount(trace', {e}) <= 1
        /\ EventCount(trace', {"sync"}) <= 2
        /\ EventCount(trace', {"warmup", "timed"}) <= warmup_iters + bench_iters
      ]_vars

C18_Witness ==
    /\ pc = "raised"
    /\ failed_call = "rocblas_gemm_ex"
    /\ status # 0
    /\ i = 2
    /\ EventCount(trace, {"timed"}) = 2

\* C19: every GEMM call has alpha = 1, beta = 0, BF16 for A, B, C and D, a
\* 32-bit float compute type, the default algorithm, solution index 0 and
\* flags 0, and d_A, d_B, d_C as its buffers; a GEMM call that follows another
\* one of the same shape has the very same arguments.
C19_IdenticalGemmArgs ==
    [][ last_gemm' # <<>> =>
          LET g == last_gemm'[1]
          IN  /\ g.alpha = 1 /\ g.beta = 0
              /\ g.a_type = ROCBLAS_DATATYPE_BF16_R
              /\ g.b_type = ROCBLAS_DATATYPE_BF16_R
              /\ g.c_type = ROCBLAS_DATATYPE_BF16_R
              /\ g.d_type = ROCBLAS_DATATYPE_BF16_R
              /\ g.compute_type = ROCBLAS_DATATYPE_F32_R
              /\ g.algo = ROCBLAS_GEMM_DEFAULT
              /\ g.solution_index = 0 /\ g.flags = 0
              /\ {g.A, g.B, g.C, g.D} = {"d_A", "d_B", "d_C"}
              /\ g.handle = "live"
              /\ GemmIssued => last_gemm' = last_gemm
      ]_vars

C19_Witness ==
    /\ Positions("warmup") # {}
    /\ EventCount(trace, {"timed"}) = bench_iters
    /\ last_gemm[1].alpha = 1
    /\ last_gemm[1].beta = 0

\* the statement after a hipFree or rocblas_destroy_handle call
AfterUnchecked(p) ==
    IF p = "free_A" THEN "free_B"
    ELSE IF p = "free_B" THEN "free_C"
    ELSE IF p = "free_C" THEN "loop"
    ELSE "summary"

\* C20: whatever status hipFree or rocblas_destroy_handle returns, the step
\* goes on to the next statement, raises nothing, and leaves the exit code and
\* the result list as they are.
C20_UncheckedStatusIgnored ==
    [][ (pc \in {"free_A", "free_B", "free_C", "destroy_handle"}) =>
          ( /\ pc' = AfterUnchecked(pc)
            /\ failed_call' = "none"
            /\ exit_code' = exit_code
            /\ results' = results
            /\ results_sorted' = results_sorted )
      ]_vars

C20_Witness ==
    /\ pc = "malloc_A"
    /\ status # 0
    /\ i = 2
    /\ Len(results) = 1
    /\ failed_call = "none"

\* the shape carried by the j-th entry of the result list
EntryShape(j) == << results[j].m, results[j].n, results[j].k >>

\* the shapes of the sweep of the running script, as a set
SweepShapes ==
    IF script = "quick" THEN { test_cases[j] : j \in 1..Len(test_cases) }
    ELSE { << dims[a], dims[b], dims[c] >> : a, b, c \in 1..Len(dims) }

\* C21: the progress counter goes up by one per shape and the shape in work
\* is the one at that position of the sweep; the result list never has more
\* than one entry per shape, its j-th entry carries the j-th shape, and the
\* entry of a shape is appended at the position the counter shows.  A run
\* that ends without a failed call has exactly one entry for every shape of
\* the sweep: the listed shapes in the quick script, and dims x dims x dims
\* with m outermost and k innermost, |dims|^3 entries, in the benchmark script
\* (4^3 = 64 for the four dimensions of the source).
C21_OneEntryPerShape ==
    /\ i <= NumShapes
    /\ i > 0 => << m, n, k >> = InputShape(i)
    /\ Len(results) = IF i = 0 \/ Positions("append") # {} THEN i ELSE i - 1
    /\ \A j \in 1..Len(results) : EntryShape(j) = InputShape(j)
    /\ pc = "done" =>
         /\ failed_call = "none"
         /\ Len(results) = NumShapes
         /\ i = NumShapes
         /\ { EntryShape(j) : j \in 1..Len(results) } = SweepShapes
         /\ Cardinality(SweepShapes) = Len(results)
         /\ script = "quick" =>
              \A j \in 1..Len(test_cases) : EntryShape(j) = test_cases[j]
         /\ script = "benchmark" =>
              /\ Len(results) = Len(dims) * Len(dims) * Len(dims)
              /\ \A a, b \in 1..Len(results) :
                   a < b =>
                     \/ results[a].m < results[b].m
                     \/ /\ results[a].m = results[b].m
                        /\ results[a].n < results[b].n
                     \/ /\ results[a].m = results[b].m
                        /\ results[a].n = results[b].n
                        /\ results[a].k < results[b].k
    /\ Len(AllDims) * Len(AllDims) * Len(AllDims) = 64

C21_Witness ==
    /\ pc = "done"
    /\ script = "benchmark"
    /\ failed_call = "none"
    /\ Len(results) = Len(dims) * Len(dims) * Len(dims)
    /\ i = Len(results)
    /\ EntryShape(2) = << dims[1], dims[1], dims[2] >>

\* positions of the hipMemcpy calls in the current shape iteration
Uploads == Positions("memcpy_A") \cup Positions("memcpy_B")

\* C22: an upload is made only when all three allocations of the shape have
\* succeeded, each of them earlier in the iteration; only A and B are
\* uploaded, each at most once, and exactly once in an iteration that goes on
\* to a GEMM call; the byte count of a copy is the byte count requested for
\* its destination buffer, m*k*2 for A and k*n*2 for B.
C22_UploadsAfterAllocations ==
    /\ Uploads # {} =>
         \A b \in Buffers :
            /\ mallocs[b] = 1
            /\ Cardinality(Positions("malloc_" \o b)) = 1
            /\ \A a \in Positions("malloc_" \o b), u \in Uploads : a < u
    /\ copy_bytes["C"] = 0
    /\ Positions("memcpy_C") = {}
    /\ \A b \in {"A", "B"} :
         /\ Cardinality(Positions("memcpy_" \o b)) <= 1
         /\ GemmIssued => Cardinality(Positions("memcpy_" \o b)) = 1
         /\ IF Positions("memcpy_" \o b) = {}
            THEN copy_bytes[b] = 0
            ELSE /\ copy_bytes[b] = req_bytes[b]
                 /\ copy_bytes[b] = ExpectedBytes(InputShape(i), b)
                 /\ copy_bytes[b] <= req_bytes[b]

C22_Witness ==
    /\ GemmIssued
    /\ Cardinality(Uploads) = 2
    /\ copy_bytes["A"] = m * k * 2
    /\ copy_bytes["B"] = k * n * 2
    /\ copy_bytes["A"] # copy_bytes["B"]
    /\ copy_bytes["C"] = 0

====
